---- MODULE Spec2Model ----
(***************************************************************************)
(* Storefront: Express catalog API (server/index.js), fetch client         *)
(* (services/api.js) and the React App component (src/App.jsx).            *)
(*                                                                         *)
(* JavaScript strings are TLA+ strings; the character at position i of s   *)
(* is SubSeq(s, i, i).  A value that may be undefined is an option:        *)
(* <<>> is undefined and <<s>> is the string s.  Prices are kept in        *)
(* hundredths (19.99 is 1999).                                             *)
(***************************************************************************)
EXTENDS Integers, Sequences, FiniteSets, TLC

VARIABLES
    \* ---- App component (src/App.jsx) ----
    filters,      \* useState filters: [q, category, minPrice, maxPrice, sort]
    items,        \* useState items
    total,        \* useState total
    loading,      \* useState loading
    error,        \* useState error: << >> is null, << message >> the message
    cart,         \* useState cart as of the last render: what the closures read
    cartUpdates,  \* the cart the setCart updaters queued since that render yield
    productMap,   \* useState productMap
    view,         \* what the last render derived: cartCount, cartItems, cartTotal
    requests,     \* the load() calls still running, and the one issued last
    issued,       \* how many load() calls were issued
    queued,       \* how many setCart updaters were queued since the last render
    lastOp,       \* incQty(id) was dispatched last, or incQty(id) then decQty(id)
    \* ---- one HTTP exchange seen from both ends ----
    apiReq,       \* the request: [route, criteria, id]
    apiResp,      \* the server's answer: [status, body]
    apiTransport, \* what the client's fetch came to
    apiClient     \* how the promise of the client function settled

appVars == << filters, items, total, loading, error, cart, cartUpdates, productMap,
              view, requests, issued, queued, lastOp >>

apiVars == << apiReq, apiResp, apiTransport, apiClient >>

vars == << appVars, apiVars >>

-----------------------------------------------------------------------------
(* Strings *)

CharAt(s, i) == IF i >= 1 /\ i <= Len(s) THEN SubSeq(s, i, i) ELSE ""

UpperChars == "ABCDEFGHIJKLMNOPQRSTUVWXYZÁÉÍÓÚÜÑ"
LowerChars == "abcdefghijklmnopqrstuvwxyzáéíóúüñ"

\* the upper-case letters, and the lower-case letter of each
UpperSet == { SubSeq(UpperChars, i, i) : i \in 1..Len(UpperChars) }
LowerOf ==
    [ c \in UpperSet |->
        CharAt(LowerChars, CHOOSE i \in 1..Len(UpperChars) : SubSeq(UpperChars, i, i) = c) ]

\* String.prototype.toLowerCase on one character
LowerChar(c) == IF c \in UpperSet THEN LowerOf[c] ELSE c

\* String.prototype.toLowerCase, as the sequence of the characters of the result
toLowerCase(s) == [ i \in 1..Len(s) |-> LowerChar(SubSeq(s, i, i)) ]

\* String.prototype.includes, on two such sequences
includes(s, term) ==
    \E off \in 0..(Len(s) - Len(term)) : SubSeq(s, off + 1, off + Len(term)) = term

-----------------------------------------------------------------------------
(* Catalog (server/index.js) *)

products == <<
    [ id |-> "hat-01", title |-> "Gorro Clásico",
      description |-> "Gorro tejido clásico, abrigado y cómodo para el día a día.",
      price |-> 1999, images |-> << "/GorroNY.JPG" >>, category |-> "hats",
      colors |-> << "negro", "gris", "azul" >>, sizes |-> << "única" >>,
      stock |-> 42, featured |-> TRUE ],
    [ id |-> "hat-02", title |-> "Beanie Urbano",
      description |-> "Estilo urbano con tejido elástico y suave.",
      price |-> 2499, images |-> << "/GorroNY.JPG" >>, category |-> "hats",
      colors |-> << "negro", "verde" >>, sizes |-> << "única" >>,
      stock |-> 25, featured |-> FALSE ],
    [ id |-> "hoodie-01", title |-> "Sudadera Básica",
      description |-> "Sudadera con capucha de algodón orgánico, ultra cómoda.",
      price |-> 3999, images |-> << "/hoodie_PNG25-1774699148.png" >>,
      category |-> "hoodies", colors |-> << "negro", "blanco", "azul" >>,
      sizes |-> << "S", "M", "L", "XL" >>, stock |-> 30, featured |-> TRUE ],
    [ id |-> "hoodie-02", title |-> "Sudadera Oversize",
      description |-> "Corte oversize para un look relajado, interior afelpado.",
      price |-> 4999, images |-> << "/sudaderaoversize.png" >>,
      category |-> "hoodies", colors |-> << "gris", "beige" >>,
      sizes |-> << "M", "L", "XL" >>, stock |-> 12, featured |-> FALSE ] >>

-----------------------------------------------------------------------------
(* Numbers: parseFloat (ECMAScript StrDecimalLiteral prefix) and comparison *)

Digits == "0123456789"
IsDigit(c) == \E i \in 1..Len(Digits) : SubSeq(Digits, i, i) = c
DigitVal(c) == (CHOOSE i \in 1..Len(Digits) : SubSeq(Digits, i, i) = c) - 1
IsWhiteSpace(c) == c \in { " ", "\t", "\n", "\r" }

RECURSIVE Pow10(_)
Pow10(k) == IF k <= 0 THEN 1 ELSE 10 * Pow10(k - 1)

\* first position >= i of s that holds no white space
RECURSIVE SkipWhiteSpace(_, _)
SkipWhiteSpace(s, i) ==
    IF i <= Len(s) /\ IsWhiteSpace(CharAt(s, i)) THEN SkipWhiteSpace(s, i + 1) ELSE i

\* position after the longest run of digits of s that starts at i
RECURSIVE DigitsEnd(_, _)
DigitsEnd(s, i) ==
    IF i <= Len(s) /\ IsDigit(CharAt(s, i)) THEN DigitsEnd(s, i + 1) ELSE i

\* value of the digits s[i .. j-1] (0 when there are none)
RECURSIVE DigitsValue(_, _, _)
DigitsValue(s, i, j) ==
    IF j <= i THEN 0 ELSE 10 * DigitsValue(s, i, j - 1) + DigitVal(CharAt(s, j - 1))

NaN == [ kind |-> "nan", m |-> 0, e |-> 0, end |-> 0 ]
Infinity(neg, end) == [ kind |-> "inf", m |-> IF neg THEN -1 ELSE 1, e |-> 0, end |-> end ]

\* parseFloat reads the longest prefix of the trimmed string that is a decimal
\* literal: [+-] digits [. digits] [e [+-] digits], or [+-] Infinity.  The
\* operators below read it part by part; positions are 1-based, a part
\* [i, j) holds the characters i .. j-1.  The result is the number m * 10^e,
\* with the position after the prefix, or NaN when there is no such prefix.

\* the mantissa is [i1, i2) . [i2+1, i3) and the exponent's digits are [j1, j2)
NumberAt(s, neg, i1, i2, i3, j1, j2) ==
    [ kind |-> "num",
      m    |-> (IF neg THEN -1 ELSE 1)
               * (DigitsValue(s, i1, i2) * Pow10(i3 - i2 - 1) + DigitsValue(s, i2 + 1, i3)),
      e    |-> (IF CharAt(s, i3) \in { "e", "E" } /\ j2 > j1
                THEN (IF CharAt(s, i3 + 1) = "-" THEN -1 ELSE 1) * DigitsValue(s, j1, j2)
                ELSE 0)
               - (IF i3 > i2 THEN i3 - i2 - 1 ELSE 0),
      end  |-> IF CharAt(s, i3) \in { "e", "E" } /\ j2 > j1 THEN j2 ELSE i3 ]

ScanExponent(s, neg, i1, i2, i3, j1) == NumberAt(s, neg, i1, i2, i3, j1, DigitsEnd(s, j1))

ScanMantissa(s, neg, i1, i2, i3) ==
    IF (i2 - i1) + (IF i3 > i2 THEN i3 - i2 - 1 ELSE 0) = 0 THEN NaN
    ELSE ScanExponent(s, neg, i1, i2, i3,
                      IF CharAt(s, i3 + 1) \in { "+", "-" } THEN i3 + 2 ELSE i3 + 1)

ScanFraction(s, neg, i1, i2) ==
    ScanMantissa(s, neg, i1, i2, IF CharAt(s, i2) = "." THEN DigitsEnd(s, i2 + 1) ELSE i2)

ScanUnsigned(s, neg, i1) ==
    IF i1 + 7 <= Len(s) /\ SubSeq(s, i1, i1 + 7) = "Infinity"
    THEN Infinity(neg, i1 + 8)
    ELSE ScanFraction(s, neg, i1, DigitsEnd(s, i1))

ScanSigned(s, i0) ==
    ScanUnsigned(s, CharAt(s, i0) = "-", IF CharAt(s, i0) \in { "+", "-" } THEN i0 + 1 ELSE i0)

parseFloat(s) == ScanSigned(s, SkipWhiteSpace(s, 1))

\* Number.isNaN
isNaN(n) == n.kind = "nan"

\* sign of price - n, for a price in hundredths and a number n that is not NaN
ComparePrice(price, n) ==
    IF n.kind = "inf" THEN -n.m
    ELSE LET k == n.e + 2
             l == IF k >= 0 THEN price ELSE price * Pow10(-k)
             r == IF k >= 0 THEN n.m * Pow10(k) ELSE n.m
         IN  IF l < r THEN -1 ELSE IF l > r THEN 1 ELSE 0

-----------------------------------------------------------------------------
(* String.prototype.localeCompare: multi-level collation (letters first by  *)
(* base letter, then by accent, then by case; lower case first)             *)

CollationOrder == " -&0123456789abcdefghijklmnopqrstuvwxyz"
AccentedChars  == "áéíóúüñÁÉÍÓÚÜÑ"
BaseChars      == "aeiouunAEIOUUN"

Unaccent(c) ==
    IF \E i \in 1..Len(AccentedChars) : SubSeq(AccentedChars, i, i) = c
    THEN LET i == CHOOSE i \in 1..Len(AccentedChars) : SubSeq(AccentedChars, i, i) = c
         IN  SubSeq(BaseChars, i, i)
    ELSE c

PrimaryWeight(c) ==
    LET b == LowerChar(Unaccent(c))
    IN  IF \E i \in 1..Len(CollationOrder) : SubSeq(CollationOrder, i, i) = b
        THEN CHOOSE i \in 1..Len(CollationOrder) : SubSeq(CollationOrder, i, i) = b
        ELSE 0
SecondaryWeight(c) == IF Unaccent(c) = c THEN 0 ELSE 1
TertiaryWeight(c) == IF LowerChar(c) = c THEN 0 ELSE 1

\* lexicographic comparison of a and b by the weight of level lvl, from position i
RECURSIVE CompareLevel(_, _, _, _)
CompareLevel(a, b, lvl, i) ==
    LET W(c) == IF lvl = 1 THEN PrimaryWeight(c)
                ELSE IF lvl = 2 THEN SecondaryWeight(c) ELSE TertiaryWeight(c)
    IN  IF i > Len(a) /\ i > Len(b) THEN 0
        ELSE IF i > Len(a) THEN -1
        ELSE IF i > Len(b) THEN 1
        ELSE IF W(CharAt(a, i)) < W(CharAt(b, i)) THEN -1
        ELSE IF W(CharAt(a, i)) > W(CharAt(b, i)) THEN 1
        ELSE CompareLevel(a, b, lvl, i + 1)

localeCompare(a, b) ==
    IF CompareLevel(a, b, 1, 1) # 0 THEN CompareLevel(a, b, 1, 1)
    ELSE IF CompareLevel(a, b, 2, 1) # 0 THEN CompareLevel(a, b, 2, 1)
    ELSE CompareLevel(a, b, 3, 1)

-----------------------------------------------------------------------------
(* Query engine (server/index.js) *)

Undefined == << >>
Truthy(v) == v # Undefined /\ v[1] # ""

\* the four filter stages; seq is `result` on entry, the value is `result` after

\* if (category) result = result.filter(p => p.category === category)
FilterCategory(seq, category) ==
    IF Truthy(category) THEN SelectSeq(seq, LAMBDA p : p.category = category[1]) ELSE seq

\* MatchesTerm searching the title only
MatchesTitle(p, term) == includes(toLowerCase(p.title), term)

\* p => p.title.toLowerCase().includes(term) || p.description.toLowerCase().includes(term)
MatchesTerm(p, term) ==
    includes(toLowerCase(p.title), term) \/ includes(toLowerCase(p.description), term)

\* if (q) { const term = q.toLowerCase(); result = result.filter(...) }
FilterText(seq, q) ==
    IF Truthy(q) THEN SelectSeq(seq, LAMBDA p : MatchesTerm(p, toLowerCase(q[1]))) ELSE seq

\* KeepFrom without the Number.isNaN test: price >= NaN is false for every record
KeepFromUnguarded(seq, min) ==
    SelectSeq(seq, LAMBDA p : ~isNaN(min) /\ ComparePrice(p.price, min) >= 0)

\* const min = parseFloat(minPrice); if (!Number.isNaN(min)) result = result.filter(...)
KeepFrom(seq, min) ==
    IF ~isNaN(min) THEN SelectSeq(seq, LAMBDA p : ComparePrice(p.price, min) >= 0) ELSE seq

\* if (minPrice !== undefined) { ... }
FilterMinPrice(seq, minPrice) ==
    IF minPrice # Undefined THEN KeepFrom(seq, parseFloat(minPrice[1])) ELSE seq

KeepUpTo(seq, max) ==
    IF ~isNaN(max) THEN SelectSeq(seq, LAMBDA p : ComparePrice(p.price, max) <= 0) ELSE seq

\* if (maxPrice !== undefined) { ... }
FilterMaxPrice(seq, maxPrice) ==
    IF maxPrice # Undefined THEN KeepUpTo(seq, parseFloat(maxPrice[1])) ELSE seq

\* compareFn with price_desc computing a.price - b.price as price_asc does
compareFnAscending(a, b, sort) ==
    IF sort \in { "price_asc", "price_desc" }
    THEN (IF a.price < b.price THEN -1 ELSE IF a.price > b.price THEN 1 ELSE 0)
    ELSE IF sort = "title_asc" THEN localeCompare(a.title, b.title)
    ELSE 0

\* the comparator handed to Array.prototype.sort for each recognised sort value
\* (its sign); 0 for every pair when the value is not recognised: no sort runs
compareFn(a, b, sort) ==
    IF sort = "price_asc"
    THEN (IF a.price < b.price THEN -1 ELSE IF a.price > b.price THEN 1 ELSE 0)
    ELSE IF sort = "price_desc"
    THEN (IF b.price < a.price THEN -1 ELSE IF b.price > a.price THEN 1 ELSE 0)
    ELSE IF sort = "title_asc" THEN localeCompare(a.title, b.title)
    ELSE 0

\* x put into the sorted sequence seq after every element that does not sort after it
RECURSIVE InsertSorted(_, _, _)
InsertSorted(seq, x, sort) ==
    IF seq = << >> THEN << x >>
    ELSE IF compareFn(seq[Len(seq)], x, sort) <= 0 THEN Append(seq, x)
    ELSE Append(InsertSorted(SubSeq(seq, 1, Len(seq) - 1), x, sort), seq[Len(seq)])

\* Array.prototype.sort: a stable sort (ECMAScript 2019), here by insertion
RECURSIVE SortBy(_, _)
SortBy(seq, sort) ==
    IF seq = << >> THEN << >>
    ELSE InsertSorted(SortBy(SubSeq(seq, 1, Len(seq) - 1), sort), seq[Len(seq)], sort)

\* if (sort) { ... result.sort(...) ... }
SortStage(seq, sort) == IF Truthy(sort) THEN SortBy(seq, sort[1]) ELSE seq

Result(seq) == [ items |-> seq, total |-> Len(seq) ]

queryProducts(c) ==
    Result(SortStage(FilterMaxPrice(FilterMinPrice(FilterText(FilterCategory(
        products, c.category), c.q), c.minPrice), c.maxPrice), c.sort))

-----------------------------------------------------------------------------
(* API client (services/api.js) *)

\* Response.ok
ok(status) == status >= 200 /\ status <= 299

\* what fetch() and res.json() come to: the request was aborted through its
\* signal, the network failed, or a response with a status and a JSON body came
Aborted      == [ kind |-> "abort",    status |-> 0, body |-> [ none |-> TRUE ] ]
NetworkError == [ kind |-> "network",  status |-> 0, body |-> [ none |-> TRUE ] ]
Response(status, body) == [ kind |-> "response", status |-> status, body |-> body ]
NoTransport  == [ kind |-> "none",     status |-> 0, body |-> [ none |-> TRUE ] ]

\* the error the try block throws, << >> when it throws none
Thrown(t) ==
    IF t.kind = "abort"
    THEN << [ name |-> "AbortError", message |-> "The operation was aborted." ] >>
    ELSE IF t.kind = "network"
    THEN << [ name |-> "TypeError", message |-> "Failed to fetch" ] >>
    ELSE IF ~ok(t.status)
    THEN << [ name    |-> "Error",
              message |-> "Request failed with status " \o ToString(t.status) ] >>
    ELSE << >>

\* a settled promise; the value of a resolved one is << v >>, or << >> for null
Pending     == [ kind |-> "pending",  value |-> << >> ]
Resolved(v) == [ kind |-> "resolved", value |-> v ]
Rejected(e) == [ kind |-> "rejected", value |-> << e >> ]

EmptyResult == [ items |-> << >>, total |-> 0 ]

\* fetchProducts without the AbortError test of its catch block
fetchProductsRethrows(t) ==
    IF Thrown(t) = << >> THEN Resolved(<< t.body >>) ELSE Rejected(Thrown(t)[1])

\* fetchProducts with a catch block that answers every error with the empty result
fetchProductsSwallows(t) ==
    IF Thrown(t) = << >> THEN Resolved(<< t.body >>) ELSE Resolved(<< EmptyResult >>)

fetchProducts(t) ==
    IF Thrown(t) = << >> THEN Resolved(<< t.body >>)
    ELSE IF Thrown(t)[1].name = "AbortError" THEN Resolved(<< EmptyResult >>)
    ELSE Rejected(Thrown(t)[1])

\* fetchProductById answering a response that is not ok with null
fetchProductByIdNullOnError(t) ==
    IF Thrown(t) = << >> THEN Resolved(<< t.body >>)
    ELSE IF Thrown(t)[1].name = "AbortError" \/ t.kind = "response" THEN Resolved(<< >>)
    ELSE Rejected(Thrown(t)[1])

fetchProductById(t) ==
    IF Thrown(t) = << >> THEN Resolved(<< t.body >>)
    ELSE IF Thrown(t)[1].name = "AbortError" THEN Resolved(<< >>)
    ELSE Rejected(Thrown(t)[1])

\* buildQuery, then Express's req.query: a field that is '' is left out of the
\* query string and reaches the handler undefined; the others arrive as strings
buildQuery(params) ==
    [ k \in DOMAIN params |-> IF params[k] = "" THEN Undefined ELSE << params[k] >> ]

-----------------------------------------------------------------------------
(* One HTTP exchange: the routes of server/index.js and the client function *)
(* that called them                                                         *)

NoResponse == [ status |-> 0, body |-> [ none |-> TRUE ] ]

\* app.get('/api/products')
GetProducts ==
    /\ apiReq.route = "products"
    /\ apiResp = NoResponse
    /\ apiClient = Pending
    /\ apiResp' = [ status |-> 200, body |-> queryProducts(apiReq.criteria) ]
    /\ UNCHANGED << apiReq, apiTransport, apiClient, appVars >>

\* products.find(p => p.id === id), << >> when find returns undefined
FindProduct(id) ==
    LET found == SelectSeq(products, LAMBDA p : p.id = id)
    IN  IF found = << >> THEN << >> ELSE << found[1] >>

\* app.get('/api/products/:id')
GetProductById ==
    /\ apiReq.route = "product"
    /\ apiResp = NoResponse
    /\ apiClient = Pending
    /\ apiResp' = IF FindProduct(apiReq.id) = << >>
                  THEN [ status |-> 404, body |-> [ message |-> "Product not found" ] ]
                  ELSE [ status |-> 200, body |-> FindProduct(apiReq.id)[1] ]
    /\ UNCHANGED << apiReq, apiTransport, apiClient, appVars >>

\* the promise of the client function, for what the transport came to
Settle(t) ==
    IF apiReq.route = "products" THEN fetchProducts(t) ELSE fetchProductById(t)

\* the response reaches the client
ClientReceives ==
    /\ apiResp # NoResponse
    /\ apiClient = Pending
    /\ apiTransport' = Response(apiResp.status, apiResp.body)
    /\ apiClient' = Settle(apiTransport')
    /\ UNCHANGED << apiReq, apiResp, appVars >>

\* the caller aborts the signal while the request is in flight
ClientAborts ==
    /\ apiClient = Pending
    /\ apiTransport' = Aborted
    /\ apiClient' = Settle(apiTransport')
    /\ UNCHANGED << apiReq, apiResp, appVars >>

\* the connection fails before any response
ClientNetworkFails ==
    /\ apiResp = NoResponse
    /\ apiClient = Pending
    /\ apiTransport' = NetworkError
    /\ apiClient' = Settle(apiTransport')
    /\ UNCHANGED << apiReq, apiResp, appVars >>

-----------------------------------------------------------------------------
(* Cart (src/App.jsx).  The cart object is a function from the ids it holds  *)
(* to their quantities; the order of its keys is not kept, so cartItems is   *)
(* the set of its line items.                                                *)

MaxQty == 2        \* largest quantity of one product a run puts in the cart
MaxLines == 2      \* most products a run puts in the cart together
MaxBatch == 2      \* most setCart updaters a run queues between two renders

EmptyCart == [ id \in {} |-> 0 ]
EmptyMap  == [ id \in {} |-> products[1] ]
NoOp      == [ op |-> "none", id |-> "", prior |-> 0 ]

\* (cart[id] || 0)
Qty(c, id) == IF id \in DOMAIN c THEN c[id] ELSE 0

\* the updater of handleAddToCart: { ...prev, [id]: (prev[id] || 0) + 1 }
addToCart(prev, id) ==
    [ k \in DOMAIN prev \cup { id } |-> IF k = id THEN Qty(prev, id) + 1 ELSE prev[k] ]

\* updateQty with `qty < 0` for its test: a quantity of 0 is stored
updateQtyStoresZero(prev, id, qty) ==
    IF qty < 0
    THEN [ k \in DOMAIN prev \ { id } |-> prev[k] ]
    ELSE [ k \in DOMAIN prev \cup { id } |-> IF k = id THEN qty ELSE prev[k] ]

\* the updater of updateQty(id, qty)
updateQty(prev, id, qty) ==
    IF qty <= 0
    THEN [ k \in DOMAIN prev \ { id } |-> prev[k] ]
    ELSE [ k \in DOMAIN prev \cup { id } |-> IF k = id THEN qty ELSE prev[k] ]

\* a count of the cart's entries instead of the sum of their quantities
cartCountEntries(c) == Cardinality(DOMAIN c)

\* Object.values(cart).reduce((acc, qty) => acc + qty, 0)
RECURSIVE cartCount(_)
cartCount(c) ==
    IF DOMAIN c = {} THEN 0
    ELSE cartCount([ k \in DOMAIN c \ { CHOOSE id \in DOMAIN c : TRUE } |-> c[k] ])
         + c[CHOOSE id \in DOMAIN c : TRUE]

\* Object.entries(cart).map(([id, qty]) => ({ product: productsById[id], qty }))
\*                     .filter((i) => i.product)
cartItems(c, byId) ==
    { [ product |-> byId[id], qty |-> c[id] ] : id \in DOMAIN c \cap DOMAIN byId }

\* cartItems.reduce((acc, { product, qty }) => acc + product.price * qty, 0)
RECURSIVE cartTotal(_)
cartTotal(lines) ==
    IF lines = {} THEN 0
    ELSE cartTotal(lines \ { CHOOSE l \in lines : TRUE })
         + (CHOOSE l \in lines : TRUE).product.price * (CHOOSE l \in lines : TRUE).qty

\* the three useMemo values of a render with cart c and productMap byId
Derived(c, byId) ==
    [ cartCount |-> cartCount(c),
      cartItems |-> cartItems(c, byId),
      cartTotal |-> cartTotal(cartItems(c, byId)) ]

-----------------------------------------------------------------------------
(* App component (src/App.jsx): the effect that loads the catalog *)

MaxRequests == 3   \* load() calls issued in one run

InitialFilters == [ q |-> "", category |-> "", minPrice |-> "", maxPrice |-> "", sort |-> "" ]

\* the values the controls of FilterBar hand to onChange
FilterValues ==
    [ q        |-> { "", "Sudadera" },
      category |-> { "", "hats", "hoodies" },
      minPrice |-> { "", "24.99" },
      maxPrice |-> { "", "40" },
      sort     |-> { "", "price_desc" } ]

ErrorMessage == "No se pudo cargar el catálogo. ¿Iniciaste el servidor en el puerto 4000?"

\* a load() call: the params it sent, how far it is ("pending": its fetch is in
\* flight; "aborted": its signal was aborted and the rejection of its fetch is
\* a queued microtask; "done": load() ran to its end), what the transport came
\* to (with the status of the response, if one came) and how the promise of
\* fetchProducts settled
NewRequest(params) ==
    [ params |-> params, state |-> "pending", transport |-> "none", status |-> 0,
      promise |-> "pending" ]

\* a rejection queued by abort() runs before any later task of the event loop
MicrotaskQueued == \E i \in 1..Len(requests) : requests[i].state = "aborted"

\* an effect that returns no cleanup: nothing is aborted
CleanupNoAbort(reqs) == reqs

\* the effect's cleanup: controller.abort() on the controller of the effect
\* that is being replaced, which is the one of the load() issued last
Cleanup(reqs) ==
    IF reqs # << >> /\ reqs[Len(reqs)].state = "pending"
    THEN [ reqs EXCEPT ![Len(reqs)].state = "aborted" ]
    ELSE reqs

\* the load() calls that have not run to their end
Running(reqs) == SelectSeq(reqs, LAMBDA r : r.state # "done")

\* setProductMap replacing the cache by the products of the answer
ReplaceProducts(prev, its) ==
    [ id \in { its[i].id : i \in 1..Len(its) } |->
        its[CHOOSE i \in 1..Len(its) : its[i].id = id] ]

\* { ...prev, ...Object.fromEntries(items.map((p) => [p.id, p])) }
MergeProducts(prev, its) ==
    [ id \in DOMAIN prev \cup { its[i].id : i \in 1..Len(its) } |->
        IF \E i \in 1..Len(its) : its[i].id = id
        THEN its[CHOOSE i \in 1..Len(its) :
                    its[i].id = id /\ \A j \in (i + 1)..Len(its) : its[j].id # id]
        ELSE prev[id] ]

\* the rest of load() once the promise r of fetchProducts has settled: the try
\* block's three setters or the catch block's setError, then finally; React
\* renders with the new state
LoadContinues(i, t, r) ==
    /\ requests' = [ requests EXCEPT ![i].state = "done",
                                     ![i].transport = t.kind,
                                     ![i].status = t.status,
                                     ![i].promise = r.kind ]
    /\ IF r.kind = "resolved"
       THEN /\ items' = r.value[1].items
            /\ total' = r.value[1].total
            /\ productMap' = MergeProducts(productMap, r.value[1].items)
            /\ error' = error
       ELSE /\ error' = << ErrorMessage >>
            /\ UNCHANGED << items, total, productMap >>
    /\ loading' = FALSE
    /\ cart' = cartUpdates
    /\ view' = Derived(cart', productMap')
    /\ queued' = 0
    /\ lastOp' = NoOp
    /\ UNCHANGED << filters, cartUpdates, issued, apiVars >>

LoadSettles(i, t) == LoadContinues(i, t, fetchProducts(t))

\* FilterBar's onChange -> setFilters; the render that follows runs the effect:
\* the cleanup of the previous one, then load() up to its await
SetFilters(key, value) ==
    /\ ~MicrotaskQueued
    /\ issued < MaxRequests
    /\ value # filters[key]
    /\ filters' = [ filters EXCEPT ![key] = value ]
    /\ requests' = Append(Running(Cleanup(requests)), NewRequest(filters'))
    /\ issued' = issued + 1
    /\ loading' = TRUE
    /\ error' = << >>
    /\ cart' = cartUpdates
    /\ view' = Derived(cart', productMap)
    /\ queued' = 0
    /\ lastOp' = NoOp
    /\ UNCHANGED << items, total, productMap, cartUpdates, apiVars >>

\* the server's answer to request i arrives
FetchResponds(i) ==
    /\ ~MicrotaskQueued
    /\ requests[i].state = "pending"
    /\ LoadSettles(i, Response(200, queryProducts(buildQuery(requests[i].params))))

\* request i fails: no connection, or an answer with a failure status
FetchFails(i, t) ==
    /\ ~MicrotaskQueued
    /\ requests[i].state = "pending"
    /\ LoadSettles(i, t)

\* the microtask of an aborted request: its fetch rejected with AbortError
AbortedFetchSettles(i) ==
    /\ requests[i].state = "aborted"
    /\ LoadSettles(i, Aborted)

-----------------------------------------------------------------------------
(* App component (src/App.jsx): the cart handlers *)

\* AddToCartButton: disabled
Disabled(product) == product.stock <= 0

\* the grid is rendered and the button of items[i] is clicked
HandleAddToCart(i) ==
    /\ ~MicrotaskQueued
    /\ ~loading /\ error = << >>
    /\ i \in 1..Len(items)
    /\ ~Disabled(items[i])
    /\ queued < MaxBatch
    /\ Qty(cartUpdates, items[i].id) < MaxQty
    /\ Cardinality(DOMAIN cartUpdates \cup { items[i].id }) <= MaxLines
    /\ cartUpdates' = addToCart(cartUpdates, items[i].id)
    /\ queued' = queued + 1
    /\ lastOp' = NoOp
    /\ UNCHANGED << filters, items, total, loading, error, cart, productMap, view,
                    requests, issued, apiVars >>

\* the buttons of a line of the cart drawer; the handlers read the cart of the
\* render that created them
IncQty(id) ==
    /\ ~MicrotaskQueued
    /\ \E l \in view.cartItems : l.product.id = id
    /\ queued < MaxBatch
    /\ Qty(cart, id) < MaxQty
    /\ cartUpdates' = updateQty(cartUpdates, id, Qty(cart, id) + 1)
    /\ queued' = queued + 1
    /\ lastOp' = [ op |-> "inc", id |-> id, prior |-> Qty(cartUpdates, id) ]
    /\ UNCHANGED << filters, items, total, loading, error, cart, productMap, view,
                    requests, issued, apiVars >>

DecQty(id) ==
    /\ ~MicrotaskQueued
    /\ \E l \in view.cartItems : l.product.id = id
    /\ queued < MaxBatch
    /\ cartUpdates' = updateQty(cartUpdates, id, Qty(cart, id) - 1)
    /\ queued' = queued + 1
    /\ lastOp' = IF lastOp.op = "inc" /\ lastOp.id = id
                 THEN [ lastOp EXCEPT !.op = "inc-dec" ]
                 ELSE NoOp
    /\ UNCHANGED << filters, items, total, loading, error, cart, productMap, view,
                    requests, issued, apiVars >>

RemoveItem(id) ==
    /\ ~MicrotaskQueued
    /\ \E l \in view.cartItems : l.product.id = id
    /\ queued < MaxBatch
    /\ cartUpdates' = updateQty(cartUpdates, id, 0)
    /\ queued' = queued + 1
    /\ lastOp' = NoOp
    /\ UNCHANGED << filters, items, total, loading, error, cart, productMap, view,
                    requests, issued, apiVars >>

\* React renders with the queued cart updaters applied
Render ==
    /\ ~MicrotaskQueued
    /\ queued > 0
    /\ cart' = cartUpdates
    /\ view' = Derived(cart', productMap)
    /\ queued' = 0
    /\ UNCHANGED << filters, items, total, loading, error, cartUpdates, productMap,
                    requests, issued, lastOp, apiVars >>

-----------------------------------------------------------------------------
(* Specifications *)

ProductIds == { products[i].id : i \in 1..Len(products) }

AppMounted ==
    /\ filters = InitialFilters
    /\ items = << >>
    /\ total = 0
    /\ loading = TRUE
    /\ error = << >>
    /\ cart = EmptyCart
    /\ cartUpdates = EmptyCart
    /\ productMap = EmptyMap
    /\ view = Derived(EmptyCart, EmptyMap)
    /\ requests = << NewRequest(InitialFilters) >>
    /\ issued = 1
    /\ queued = 0
    /\ lastOp = NoOp

NoExchange ==
    /\ apiReq = [ route |-> "none", criteria |-> buildQuery(InitialFilters), id |-> "" ]
    /\ apiResp = NoResponse
    /\ apiTransport = NoTransport
    /\ apiClient = Pending

\* the App component, mounted, its first load() in flight
Init == AppMounted /\ NoExchange

\* the user edits the filters; the effect loads the catalog
NextLoad ==
    \/ \E key \in DOMAIN FilterValues : \E value \in FilterValues[key] : SetFilters(key, value)
    \/ \E i \in 1..Len(requests) : FetchResponds(i)
    \/ \E i \in 1..Len(requests) : \E t \in { NetworkError, Response(500, [ none |-> TRUE ]) } :
          FetchFails(i, t)
    \/ \E i \in 1..Len(requests) : AbortedFetchSettles(i)

SpecLoad == Init /\ [][NextLoad]_vars

\* the first load() ends; the user fills and edits the cart
NextCart ==
    \/ \E i \in 1..Len(requests) : FetchResponds(i)
    \/ \E i \in 1..Len(products) : HandleAddToCart(i)
    \/ \E id \in ProductIds : IncQty(id)
    \/ \E id \in ProductIds : DecQty(id)
    \/ \E id \in ProductIds : RemoveItem(id)
    \/ Render

SpecCart == Init /\ [][NextCart]_vars

\* the user edits the search text while filling and editing the cart
NextShop ==
    \/ \E value \in FilterValues.q : SetFilters("q", value)
    \/ \E i \in 1..Len(requests) : FetchResponds(i)
    \/ \E i \in 1..Len(requests) : AbortedFetchSettles(i)
    \/ \E i \in 1..Len(products) : HandleAddToCart(i)
    \/ \E id \in ProductIds : IncQty(id)
    \/ \E id \in ProductIds : DecQty(id)
    \/ \E id \in ProductIds : RemoveItem(id)
    \/ Render

SpecShop == Init /\ [][NextShop]_vars

\* the carts and product caches a render can meet
Carts == UNION { [ ids -> 1..MaxQty ] : ids \in SUBSET ProductIds }
Caches ==
    { [ id \in ids |-> products[CHOOSE i \in 1..Len(products) : products[i].id = id] ] :
        ids \in SUBSET ProductIds }

\* the useMemo derivations, over every cart and every cache: setCart updaters
\* that yield the cart are queued, and React renders
InitMemo ==
    /\ filters = InitialFilters
    /\ items = << >>
    /\ total = 0
    /\ loading = TRUE
    /\ error = << >>
    /\ cart = EmptyCart
    /\ cartUpdates \in Carts
    /\ productMap \in Caches
    /\ view = Derived(cart, productMap)
    /\ requests = << NewRequest(InitialFilters) >>
    /\ issued = 1
    /\ queued = cartCount(cartUpdates)
    /\ lastOp = NoOp
    /\ NoExchange

SpecMemo == InitMemo /\ [][Render]_vars

\* the values a query string can carry for each parameter
CriteriaInputs ==
    [ category : { Undefined, << "" >>, << "hats" >>, << "hoodies" >>, << "Hats" >> },
      q        : { Undefined, << "" >>, << "SUDADERA" >>, << "capucha" >>, << "urbano" >>,
                   << "zapato" >> },
      minPrice : { Undefined, << "" >>, << "24.99" >>, << "30" >>, << "abc" >>, << "30abc" >>,
                   << "2.5e1" >> },
      maxPrice : { Undefined, << "39.99" >>, << " 25" >>, << "abc" >>, << "40abc" >>,
                   << "-Infinity" >> },
      sort     : { Undefined, << "" >>, << "price_asc" >>, << "price_desc" >>,
                   << "title_asc" >>, << "newest" >> } ]

IdInputs == { "hat-01", "hoodie-02", "hat-03", "HAT-01" }

\* a client has just sent one request to the API
InitApi ==
    /\ AppMounted
    /\ \/ \E c \in CriteriaInputs : apiReq = [ route |-> "products", criteria |-> c, id |-> "" ]
       \/ \E id \in IdInputs :
             apiReq = [ route |-> "product", criteria |-> buildQuery(InitialFilters), id |-> id ]
    /\ apiResp = NoResponse
    /\ apiTransport = NoTransport
    /\ apiClient = Pending

NextApi ==
    \/ GetProducts
    \/ GetProductById
    \/ ClientReceives
    \/ ClientAborts
    \/ ClientNetworkFails

SpecApi == InitApi /\ [][NextApi]_vars

-----------------------------------------------------------------------------
(* Properties of the catalog load (SpecLoad) *)

Latest == requests[Len(requests)]

\* every load() issued has run to its end
Quiescent == \A i \in 1..Len(requests) : requests[i].state = "done"

\* the request failed for a reason other than its cancellation
Failed(r) ==
    r.state = "done" /\ (r.transport = "network" \/ (r.transport = "response" /\ ~ok(r.status)))

\* C1: once every load() has completed and the one issued last (B, for the
\* current filters) resolved, items and total are those of B's answer, whatever
\* the superseded load() (A) came to.
C1_SupersededNeverFinal ==
    (Quiescent /\ Latest.promise = "resolved")
        => /\ items = queryProducts(buildQuery(filters)).items
           /\ total = queryProducts(buildQuery(filters)).total

\* C1 happens: A was aborted by the filter change that issued B, both completed
\* and the view shows B's products
C1_Witness ==
    /\ Quiescent
    /\ Len(requests) = 2
    /\ requests[1].transport = "abort"
    /\ requests[2].transport = "response" /\ requests[2].promise = "resolved"
    /\ requests[1].params # requests[2].params
    /\ items # << >>
    /\ items # queryProducts(buildQuery(requests[1].params)).items

\* C2: the promise of a cancelled load() resolves; the step that runs its
\* continuation stores the empty result and leaves the error state as it
\* was; and the error state is only ever set while the load() issued last has
\* failed for a reason other than cancellation.
C2_CancelNeverAnError ==
    /\ [](\A i \in 1..Len(requests) :
            (requests[i].state = "done" /\ requests[i].transport = "abort")
                => requests[i].promise = "resolved")
    /\ [](error # << >> => Failed(Latest))
    /\ [][\A i \in 1..Len(requests) :
            (requests[i].state = "aborted" /\ i <= Len(requests')
                /\ requests'[i].state = "done")
                => (items' = << >> /\ total' = 0 /\ error' = error)]_vars

\* C2 happens: a cancelled load() has completed
C2_Witness ==
    \E i \in 1..Len(requests) :
        /\ requests[i].state = "done"
        /\ requests[i].transport = "abort"
        /\ requests[i].promise = "resolved"
        /\ items = << >> /\ total = 0 /\ error = << >>

\* C9: a load() that fails for a reason other than cancellation has its promise
\* rejected and puts the view in its error state; the step issues no request;
\* a request is only ever issued by a filter change; and the error state, once
\* set, stays until the filter change that issues the next request.
C9_FailureIsTerminal ==
    /\ [](\A i \in 1..Len(requests) : Failed(requests[i]) => requests[i].promise = "rejected")
    /\ [](Failed(Latest) => (error = << ErrorMessage >> /\ ~loading))
    /\ [][(~Failed(Latest) /\ Len(requests') = Len(requests) /\ Failed(Latest'))
            => (issued' = issued /\ error' = << ErrorMessage >>)]_vars
    /\ [][issued' # issued => (issued' = issued + 1 /\ filters' # filters)]_vars
    /\ [][(error # << >> /\ error' # error)
            => (error' = << >> /\ issued' = issued + 1 /\ filters' # filters)]_vars

\* C9 happens: the load() issued last got a failure status and the view shows
\* the error
C9_Witness ==
    /\ Failed(Latest)
    /\ Latest.transport = "response"
    /\ Latest.promise = "rejected"
    /\ error = << ErrorMessage >>

-----------------------------------------------------------------------------
(* Properties of the cart (SpecCart, SpecMemo) *)

\* C3: when decQty(id) is dispatched right after incQty(id), the quantity of id
\* is what it was before the incQty (the entry is absent if it was absent),
\* whether or not React rendered in between.
C3_IncThenDecRestores ==
    lastOp.op = "inc-dec" => Qty(cartUpdates, lastOp.id) = lastOp.prior

\* every entry of the cart c holds an integer >= 1
PositiveQuantities(c) == \A id \in DOMAIN c : c[id] \in Nat /\ c[id] >= 1

\* C4: every entry of the cart, as rendered and as the queued updaters leave
\* it, has an integer quantity >= 1: an entry whose quantity would become <= 0
\* is removed.
C4_QuantitiesPositive == PositiveQuantities(cart) /\ PositiveQuantities(cartUpdates)

\* C4 happens: decQty took the only unit of a line and the entry is gone
C4_Witness ==
    \E id \in DOMAIN cart :
        /\ cart[id] = 1
        /\ queued = 1
        /\ id \notin DOMAIN cartUpdates
        /\ \A k \in DOMAIN cart \ { id } : Qty(cartUpdates, k) = cart[k]

\* the units in the cart c: one per product and unit of its quantity
Units(c) == UNION { { id } \X (1..c[id]) : id \in DOMAIN c }

\* the sum, over the catalog records from position i on, of price * quantity
\* for those that are both in the cart c and in the cache byId
RECURSIVE JoinedValue(_, _, _)
JoinedValue(c, byId, i) ==
    IF i > Len(products) THEN 0
    ELSE (IF products[i].id \in DOMAIN c /\ products[i].id \in DOMAIN byId
          THEN byId[products[i].id].price * c[products[i].id]
          ELSE 0)
         + JoinedValue(c, byId, i + 1)

\* C10: what a render shows for the cart it rendered: the count is the number
\* of units in the cart, cached or not; the line items are exactly the entries
\* whose id is in the cache, each with the cached product and the entry's
\* quantity; the total is the sum of price * quantity over those.
C10_CartDerivations ==
    /\ view.cartCount = Cardinality(Units(cart))
    /\ { l.product.id : l \in view.cartItems } = DOMAIN cart \cap DOMAIN productMap
    /\ Cardinality(view.cartItems) = Cardinality(DOMAIN cart \cap DOMAIN productMap)
    /\ \A l \in view.cartItems :
          l.product = productMap[l.product.id] /\ l.qty = cart[l.product.id]
    /\ view.cartTotal = JoinedValue(cart, productMap, 1)

\* C10 happens: a rendered cart with a cached and an uncached product; the
\* count includes the uncached one, the lines and the total do not
C10_Witness ==
    /\ \E id \in DOMAIN cart : id \notin DOMAIN productMap
    /\ \E id \in DOMAIN cart : id \in DOMAIN productMap /\ cart[id] >= 2
    /\ view.cartCount > Cardinality(Units([ id \in DOMAIN cart \cap DOMAIN productMap |-> cart[id] ]))
    /\ view.cartTotal > 0

-----------------------------------------------------------------------------
(* Properties of the API (SpecApi) *)

\* the server has answered the request for the product list
ListAnswered == apiReq.route = "products" /\ apiResp # NoResponse

\* the server has answered the request for a product whose id no record has
UnknownIdAnswered ==
    /\ apiReq.route = "product"
    /\ \A i \in 1..Len(products) : products[i].id # apiReq.id
    /\ apiResp # NoResponse

\* C5 as stated: for an id that matches no record the server answers 404 with
\* a message body and, once the client has that answer, fetchProductById has
\* resolved to null.
C5_NotFoundYieldsAbsent ==
    UnknownIdAnswered =>
        /\ apiResp.status = 404
        /\ DOMAIN apiResp.body = { "message" }
        /\ apiTransport.kind = "response" => apiClient = Resolved(<< >>)

\* C5 amended: for an id that matches no record the server answers 404 with
\* the body {message: 'Product not found'}; fetchProductById rejects with the
\* error "Request failed with status 404" once it has that answer, and it
\* resolves to null only when the request was aborted.
C5_NotFoundRejects ==
    UnknownIdAnswered =>
        /\ apiResp = [ status |-> 404, body |-> [ message |-> "Product not found" ] ]
        /\ apiTransport.kind = "response" =>
              /\ apiClient.kind = "rejected"
              /\ apiClient.value[1].message = "Request failed with status 404"
        /\ apiClient = Resolved(<< >>) <=> apiTransport.kind = "abort"

\* C5 happens: the client has received the 404 of an unknown id
C5_Witness ==
    /\ UnknownIdAnswered
    /\ apiReq.id = "hat-03"
    /\ apiTransport.kind = "response"
    /\ apiClient.kind = "rejected"

\* term occurs in text, letter case apart
ContainsIgnoringCase(text, term) ==
    \E i \in 1..(Len(text) - Len(term) + 1) :
        \A k \in 1..Len(term) : LowerChar(CharAt(text, i + k - 1)) = LowerChar(CharAt(term, k))

\* a price bound is set when the parameter is there and a number is read from it
BoundSet(v) == v # Undefined /\ ~isNaN(parseFloat(v[1]))

\* the record p satisfies every criterion of c that is set
Satisfies(p, c) ==
    /\ Truthy(c.category) => p.category = c.category[1]
    /\ Truthy(c.q) => \/ ContainsIgnoringCase(p.title, c.q[1])
                      \/ ContainsIgnoringCase(p.description, c.q[1])
    /\ BoundSet(c.minPrice) => ComparePrice(p.price, parseFloat(c.minPrice[1])) >= 0
    /\ BoundSet(c.maxPrice) => ComparePrice(p.price, parseFloat(c.maxPrice[1])) <= 0

\* C6: the items of the answer are exactly the catalog records that satisfy
\* every criterion that is set, each once, and total is their number.
C6_ExactlyTheMatches ==
    ListAnswered =>
        /\ apiResp.status = 200
        /\ { apiResp.body.items[i] : i \in 1..Len(apiResp.body.items) }
              = { products[i] : i \in { j \in 1..Len(products) :
                                          Satisfies(products[j], apiReq.criteria) } }
        /\ \A i, j \in 1..Len(apiResp.body.items) :
              apiResp.body.items[i] = apiResp.body.items[j] => i = j
        /\ apiResp.body.total = Len(apiResp.body.items)

\* C6 happens: all four criteria are set and they keep some records, not all
C6_Witness ==
    /\ ListAnswered
    /\ Truthy(apiReq.criteria.category) /\ Truthy(apiReq.criteria.q)
    /\ BoundSet(apiReq.criteria.minPrice) /\ BoundSet(apiReq.criteria.maxPrice)
    /\ apiReq.criteria.q = << "capucha" >>
    /\ Len(apiResp.body.items) > 0
    /\ Len(apiResp.body.items) < Len(products)

\* position in the catalog of the record p
CatalogIndex(p) == CHOOSE i \in 1..Len(products) : products[i] = p

\* the sort parameter names one of the three orderings
Recognised(sort) == sort \in { << "price_asc" >>, << "price_desc" >>, << "title_asc" >> }

\* the items sq are in catalog order
InCatalogOrder(sq) ==
    \A i, j \in 1..Len(sq) : i < j => CatalogIndex(sq[i]) < CatalogIndex(sq[j])

\* C7: the list is answered with 200 whatever sort is; under price_asc the
\* prices never decrease, under price_desc they never increase, under
\* title_asc no title sorts after a later one; records with equal keys keep
\* their catalog order; with sort unset or unrecognised the items are in
\* catalog order.
C7_Ordering ==
    ListAnswered =>
        /\ apiResp.status = 200
        /\ \A i, j \in 1..Len(apiResp.body.items) : i < j =>
              /\ apiReq.criteria.sort = << "price_asc" >> =>
                    /\ apiResp.body.items[i].price <= apiResp.body.items[j].price
                    /\ apiResp.body.items[i].price = apiResp.body.items[j].price =>
                          CatalogIndex(apiResp.body.items[i]) < CatalogIndex(apiResp.body.items[j])
              /\ apiReq.criteria.sort = << "price_desc" >> =>
                    /\ apiResp.body.items[i].price >= apiResp.body.items[j].price
                    /\ apiResp.body.items[i].price = apiResp.body.items[j].price =>
                          CatalogIndex(apiResp.body.items[i]) < CatalogIndex(apiResp.body.items[j])
              /\ apiReq.criteria.sort = << "title_asc" >> =>
                    /\ localeCompare(apiResp.body.items[i].title, apiResp.body.items[j].title) <= 0
                    /\ apiResp.body.items[i].title = apiResp.body.items[j].title =>
                          CatalogIndex(apiResp.body.items[i]) < CatalogIndex(apiResp.body.items[j])
        /\ ~Recognised(apiReq.criteria.sort) => InCatalogOrder(apiResp.body.items)

\* C7 happens: price_desc has turned the whole catalog round
C7_Witness ==
    /\ ListAnswered
    /\ apiReq.criteria.sort = << "price_desc" >>
    /\ Len(apiResp.body.items) = Len(products)
    /\ \A i, j \in 1..Len(apiResp.body.items) : i < j =>
          CatalogIndex(apiResp.body.items[i]) > CatalogIndex(apiResp.body.items[j])

\* the whole of s, white space around it apart, is a decimal literal
ValidNumber(s) ==
    /\ ~isNaN(parseFloat(s))
    /\ SkipWhiteSpace(s, parseFloat(s).end) > Len(s)

\* the criteria c without the parameter k
Without(c, k) == [ c EXCEPT ![k] = Undefined ]

\* the criteria c with the text of parameter k cut after the number read from it
WithPrefix(c, k) == [ c EXCEPT ![k] = << SubSeq(c[k][1], 1, parseFloat(c[k][1]).end - 1) >> ]

\* C8 as stated: a minPrice or maxPrice that is not a valid number, text with
\* only a numeric prefix included, gives the answer of the same query without
\* that bound, with status 200.
C8_InvalidBoundIgnored ==
    ListAnswered =>
        /\ apiResp.status = 200
        /\ \A k \in { "minPrice", "maxPrice" } :
              (apiReq.criteria[k] # Undefined /\ ~ValidNumber(apiReq.criteria[k][1]))
                 => apiResp.body = queryProducts(Without(apiReq.criteria, k))

\* C8 amended: a minPrice or maxPrice from which parseFloat reads no number
\* gives the answer of the same query without that bound, with status 200;
\* text that starts with a number is applied as that number, and gives the
\* answer of the same query with the text cut after the number.
C8_UnparseableBoundIgnored ==
    ListAnswered =>
        /\ apiResp.status = 200
        /\ \A k \in { "minPrice", "maxPrice" } :
              /\ (apiReq.criteria[k] # Undefined /\ isNaN(parseFloat(apiReq.criteria[k][1])))
                    => apiResp.body = queryProducts(Without(apiReq.criteria, k))
              /\ BoundSet(apiReq.criteria[k])
                    => apiResp.body = queryProducts(WithPrefix(apiReq.criteria, k))

\* C8 happens: minPrice is text without a number and the records are all there
C8_Witness ==
    /\ ListAnswered
    /\ apiReq.criteria.minPrice = << "abc" >>
    /\ apiReq.criteria.maxPrice = Undefined
    /\ apiResp.status = 200
    /\ Len(apiResp.body.items) = Len(products)

-----------------------------------------------------------------------------
(* Properties of the cart across catalog loads (SpecShop) *)

\* the sum of the quantities of the line items
LineQuantities(lines) == Cardinality(UNION { { l.product.id } \X (1..l.qty) : l \in lines })

\* C11: every id in the cart, rendered or pending, is a key of the product
\* cache; the cache never loses a key; so the count a render shows is the sum
\* of the quantities of the line items it shows.
C11_CartIsCached ==
    /\ [](DOMAIN cart \subseteq DOMAIN productMap)
    /\ [](DOMAIN cartUpdates \subseteq DOMAIN productMap)
    /\ [](view.cartCount = LineQuantities(view.cartItems))
    /\ [][DOMAIN productMap \subseteq DOMAIN productMap']_vars

\* C11 happens: the grid shows the answer to a later query, without a product
\* that is in the cart and on its line
C11_Witness ==
    /\ ~loading /\ error = << >>
    /\ items # << >>
    /\ \E id \in DOMAIN cart :
          /\ \A i \in 1..Len(items) : items[i].id # id
          /\ \E l \in view.cartItems : l.product.id = id
    /\ view.cartCount >= 2

-----------------------------------------------------------------------------
(* The loading flag (SpecLoad) *)

\* C12: while the load() issued last, the one for the current filters, has not
\* run to its end, loading is true; the end of an older, aborted load() does
\* not turn it off.
C12_LoadingWhileLatestInFlight ==
    (Latest.params = filters /\ Latest.state # "done") => loading

====
